---- MODULE Spec2Model ----
(***************************************************************************)
(* Model of the matching-and-merge core of the product catalog backend:    *)
(*   - MatchingService.find_matches and its six matchers                   *)
(*     (backend/app/services/matching_service.py)                          *)
(*   - StorageService.create_product / enrich_existing_product             *)
(*     (backend/app/services/storage_service.py)                           *)
(* Text is modelled as a sequence of one-character strings so that         *)
(* lower-casing, stripping, tokenising, substring search and the           *)
(* SequenceMatcher ratio are computed, not assumed.  Scores and            *)
(* confidences are integers in hundredths (0.95 is 95).                    *)
(***************************************************************************)
EXTENDS Integers, Sequences, FiniteSets, TLC

(***************************************************************************)
(* Values                                                                  *)
(***************************************************************************)
\* Python None, and a key that is absent from a dict / document.
None == <<"<None>">>
Missing == <<"<missing>">>

\* dict.get(key): an absent key reads as None.
Get(v) == IF v = Missing THEN None ELSE v

\* Python truthiness of an Optional[str]: None and "" are falsy.
Truthy(v) == Get(v) # None /\ v # <<>>

Whitespace == {" ", "\t", "\n"}

UpperChars == <<"A","B","C","D","E","F","G","H","I","J","K","L","M",
                "N","O","P","Q","R","S","T","U","V","W","X","Y","Z">>
LowerChars == <<"a","b","c","d","e","f","g","h","i","j","k","l","m",
                "n","o","p","q","r","s","t","u","v","w","x","y","z">>
Digits == {"0","1","2","3","4","5","6","7","8","9"}

Range(s) == {s[i] : i \in 1..Len(s)}

\* str.lower() on one character
LowerChar(c) ==
    IF \E i \in 1..26 : UpperChars[i] = c
    THEN LowerChars[CHOOSE i \in 1..26 : UpperChars[i] = c]
    ELSE c

\* str.lower()
Lower(s) == [i \in 1..Len(s) |-> LowerChar(s[i])]

IsAlnum(c) == c \in Range(UpperChars) \cup Range(LowerChars) \cup Digits

\* str.strip()
Strip(s) ==
    LET keep == {i \in 1..Len(s) : s[i] \notin Whitespace}
    IN  IF keep = {} THEN <<>>
        ELSE LET lo == CHOOSE i \in keep : \A j \in keep : i <= j
                 hi == CHOOSE i \in keep : \A j \in keep : j <= i
             IN  SubSeq(s, lo, hi)

\* isinstance(v, str) and not v.strip()
IsBlankStr(v) == v # None /\ v # Missing /\ Strip(v) = <<>>

\* re.sub(r'\s+', ' ', s): every run of whitespace becomes one space
RECURSIVE CollapseWs(_)
CollapseWs(s) ==
    IF s = <<>> THEN <<>>
    ELSE IF s[1] \in Whitespace
         THEN IF Len(s) > 1 /\ s[2] \in Whitespace
              THEN CollapseWs(Tail(s))
              ELSE <<" ">> \o CollapseWs(Tail(s))
         ELSE <<s[1]>> \o CollapseWs(Tail(s))

\* MatchingService._normalize
Normalize(text) ==
    IF ~Truthy(text) THEN <<>>
    ELSE CollapseWs(Strip(Lower(text)))

\* str.split(): maximal runs of non-whitespace characters, left to right
RECURSIVE SplitFrom(_, _)
SplitFrom(s, cur) ==
    IF s = <<>> THEN (IF cur = <<>> THEN <<>> ELSE <<cur>>)
    ELSE IF s[1] \notin Whitespace
         THEN SplitFrom(Tail(s), Append(cur, s[1]))
         ELSE (IF cur = <<>> THEN <<>> ELSE <<cur>>) \o SplitFrom(Tail(s), <<>>)

Split(s) == SplitFrom(s, <<>>)

\* re.findall(r'[A-Za-z0-9]+', s): maximal alphanumeric runs, left to right
RECURSIVE AlnumFrom(_, _)
AlnumFrom(s, cur) ==
    IF s = <<>> THEN (IF cur = <<>> THEN <<>> ELSE <<cur>>)
    ELSE IF IsAlnum(s[1])
         THEN AlnumFrom(Tail(s), Append(cur, s[1]))
         ELSE (IF cur = <<>> THEN <<>> ELSE <<cur>>) \o AlnumFrom(Tail(s), <<>>)

AlnumParts(s) == AlnumFrom(s, <<>>)

\* slice seq[:n]
FirstN(s, n) == IF Len(s) <= n THEN s ELSE SubSeq(s, 1, n)

\* needle occurs in hay as a contiguous substring
Contains(hay, needle) ==
    \E i \in 0..(Len(hay) - Len(needle)) :
        SubSeq(hay, i + 1, i + Len(needle)) = needle

\* {"$regex": "w1|w2|...", "$options": "i"} applied to a stored text value
RegexAnyI(value, words) ==
    /\ value # None
    /\ value # Missing
    /\ \E k \in 1..Len(words) : Contains(Lower(value), Lower(words[k]))

(***************************************************************************)
(* difflib.SequenceMatcher(None, a, b).ratio(), no junk (autojunk only     *)
(* acts on sequences of 200 or more elements).  A similarity is kept as    *)
(* the exact fraction num/den.                                             *)
(***************************************************************************)
\* length of the common run of a from i and b from j, inside a[..ahi], b[..bhi]
RECURSIVE RunLen(_, _, _, _, _, _)
RunLen(a, b, i, j, ahi, bhi) ==
    IF i > ahi \/ j > bhi THEN 0
    ELSE IF a[i] # b[j] THEN 0
    ELSE 1 + RunLen(a, b, i + 1, j + 1, ahi, bhi)

\* SequenceMatcher.find_longest_match: the longest block; of the longest
\* blocks the one starting earliest in a, and of those earliest in b
LongestMatch(a, b, alo, ahi, blo, bhi) ==
    LET starts == {p \in (alo..ahi) \X (blo..bhi) : a[p[1]] = b[p[2]]}
        runs == {<<p[1], p[2], RunLen(a, b, p[1], p[2], ahi, bhi)>> : p \in starts}
        size == CHOOSE k \in {r[3] : r \in runs} : \A r \in runs : r[3] <= k
        longest == {r \in runs : r[3] = size}
        besti == CHOOSE i \in {r[1] : r \in longest} :
                    \A r \in longest : i <= r[1]
        bestj == CHOOSE j \in {r[2] : r \in {t \in longest : t[1] = besti}} :
                    \A r \in {t \in longest : t[1] = besti} : j <= r[2]
    IN  IF starts = {} THEN [i |-> alo, j |-> blo, size |-> 0]
        ELSE [i |-> besti, j |-> bestj, size |-> size]

\* SequenceMatcher.get_matching_blocks: total size of the matching blocks
RECURSIVE MatchedChars(_, _, _, _, _, _)
MatchedChars(a, b, alo, ahi, blo, bhi) ==
    IF alo > ahi \/ blo > bhi THEN 0
    ELSE LET m == LongestMatch(a, b, alo, ahi, blo, bhi)
         IN  IF m.size = 0 THEN 0
             ELSE m.size
                  + MatchedChars(a, b, alo, m.i - 1, blo, m.j - 1)
                  + MatchedChars(a, b, m.i + m.size, ahi, m.j + m.size, bhi)

\* SequenceMatcher.ratio(): 2.0 * matches / (len(a) + len(b)), 1.0 when both empty
Ratio(a, b) ==
    IF Len(a) + Len(b) = 0 THEN [num |-> 1, den |-> 1]
    ELSE [num |-> 2 * MatchedChars(a, b, 1, Len(a), 1, Len(b)),
          den |-> Len(a) + Len(b)]

\* MatchingService._calculate_similarity
CalculateSimilarity(str1, str2) ==
    IF ~Truthy(str1) \/ ~Truthy(str2) THEN [num |-> 0, den |-> 1]
    ELSE Ratio(Normalize(str1), Normalize(str2))

\* similarity >= pct/100
SimGeq(sim, pct) == 100 * sim.num >= pct * sim.den

\* similarity x > similarity y
SimGt(x, y) == x.num * y.den > y.num * x.den

(***************************************************************************)
(* Stored documents and MatchingService                                    *)
(***************************************************************************)
\* variant: exact_code scored below the exact-identity floor
MATCH_SCORES_LowCode ==
    [exact_barcode |-> 100, exact_ean |-> 100, exact_code |-> 90,
     manufacturer_ref |-> 85, fuzzy_name_high |-> 75,
     fuzzy_name_medium |-> 60, partial_code |-> 50]

\* MatchingService.MATCH_SCORES, in hundredths
MATCH_SCORES ==
    [exact_barcode |-> 100, exact_ean |-> 100, exact_code |-> 95,
     manufacturer_ref |-> 85, fuzzy_name_high |-> 75,
     fuzzy_name_medium |-> 60, partial_code |-> 50]

\* the six matchers of find_matches, in priority order
Matchers == <<"barcode", "ean", "code", "ref", "fuzzy", "partial">>

\* .limit(n) / to_list(length=n) of each store query, and the result slices
BarcodeLimit == 5
EanLimit == 5
CodeLimit == 5
RefLimit == 10
FuzzyStoreLimit == 50
FuzzyResultLimit == 10
PartialStoreLimit == 20
PartialResultLimit == 5
\* significant words: longer than MinWordLen, at most MaxWords of them
MinWordLen == 3
MaxWords == 5
\* significant code parts: at least MinPartLen characters
MinPartLen == 3
\* fuzzy thresholds, in hundredths
MinSimilarity == 70
HighSimilarity == 90
\* manufacturer boost and its cap, in hundredths
RefBoost == 10
RefCap == 95

NullStr == <<"n", "u", "l", "l">>

\* StorageService.serialize_product, on the fields a MatchResult reads:
\* the string "null" becomes None
Serialize(d) ==
    LET clean(v) == IF v = NullStr THEN None ELSE v
    IN  [d EXCEPT !.default_code = clean(@), !.barcode = clean(@),
                  !.Code_EAN = clean(@), !.name = clean(@),
                  !.constructeur = clean(@)]

SerializeAll(docs) == [i \in 1..Len(docs) |-> Serialize(docs[i])]

\* variant: the except clause re-raises instead of returning []
OnStoreErrorReraise == [docs |-> <<>>, raised |-> TRUE]

\* the except clause of every _find_by_* : log, return []
OnStoreError == [docs |-> <<>>, raised |-> FALSE]

Found(docs) == [docs |-> docs, raised |-> FALSE]

\* variant: the barcode query keeps only the first document
FindByBarcodeFirstOnly(st, barcode, down) ==
    IF "barcode" \in down THEN OnStoreError
    ELSE Found(SerializeAll(FirstN(
             SelectSeq(st, LAMBDA d : d.barcode = barcode), 1)))

\* MatchingService._find_by_barcode
FindByBarcode(st, barcode, down) ==
    IF "barcode" \in down THEN OnStoreError
    ELSE Found(SerializeAll(FirstN(
             SelectSeq(st, LAMBDA d : d.barcode = barcode), BarcodeLimit)))

\* MatchingService._find_by_code_ean
FindByCodeEan(st, code_ean, down) ==
    IF "ean" \in down THEN OnStoreError
    ELSE Found(SerializeAll(FirstN(
             SelectSeq(st, LAMBDA d : \/ d.code_ean = code_ean
                                      \/ d.Code_EAN = code_ean
                                      \/ d.barcode = code_ean), EanLimit)))

\* MatchingService._find_by_default_code
FindByDefaultCode(st, default_code, down) ==
    IF "code" \in down THEN OnStoreError
    ELSE Found(SerializeAll(FirstN(
             SelectSeq(st, LAMBDA d : d.default_code = default_code), CodeLimit)))

\* MatchingService._find_by_manufacturer_ref
FindByManufacturerRef(st, ref_constructeur, constructeur, down) ==
    IF "ref" \in down THEN OnStoreError
    ELSE LET plain(d) == d.ref_constructeur = ref_constructeur
             both(d) == /\ d.ref_constructeur = ref_constructeur
                        /\ d.constructeur = constructeur
             query(d) == IF Truthy(constructeur) THEN both(d) \/ plain(d)
                         ELSE plain(d)
         IN  Found(SerializeAll(FirstN(SelectSeq(st, query), RefLimit)))

\* results.sort(key=lambda x: x[1], reverse=True): stable, by similarity
InsertBySimilarity(sorted, e) ==
    LET k == Cardinality({i \in 1..Len(sorted) : ~SimGt(e.similarity, sorted[i].similarity)})
    IN  SubSeq(sorted, 1, k) \o <<e>> \o SubSeq(sorted, k + 1, Len(sorted))

RECURSIVE SortBySimilarityDesc(_)
SortBySimilarityDesc(s) ==
    IF s = <<>> THEN <<>>
    ELSE InsertBySimilarity(SortBySimilarityDesc(SubSeq(s, 1, Len(s) - 1)), s[Len(s)])

\* the significant words of a name: _normalize, split, len(w) > 3, first 5
SignificantWords(name) ==
    FirstN(SelectSeq(Split(Normalize(name)), LAMBDA w : Len(w) > MinWordLen), MaxWords)

\* MatchingService._find_by_fuzzy_name: (product, similarity) pairs
FindByFuzzyName(st, name, exclude_ids, down) ==
    LET words == SignificantWords(name)
    IN  IF words = <<>> THEN Found(<<>>)
        ELSE IF "fuzzy" \in down THEN OnStoreError
        ELSE LET products == FirstN(SelectSeq(st, LAMBDA d : RegexAnyI(d.name, words)),
                                    FuzzyStoreLimit)
                 considered == SelectSeq(products, LAMBDA d : d.id \notin exclude_ids)
                 scored == [i \in 1..Len(considered) |->
                              [product |-> Serialize(considered[i]),
                               similarity |-> CalculateSimilarity(name, Get(considered[i].name))]]
                 results == SelectSeq(scored, LAMBDA e : SimGeq(e.similarity, MinSimilarity))
             IN  Found(FirstN(SortBySimilarityDesc(results), FuzzyResultLimit))

\* variant: every alphanumeric run counts, whatever its length
SignificantPartsAnyLength(default_code) == AlnumParts(default_code)

\* the significant parts of a code: alphanumeric runs of length >= 3
SignificantParts(default_code) ==
    SelectSeq(AlnumParts(default_code), LAMBDA part : Len(part) >= MinPartLen)

\* MatchingService._find_by_partial_code
FindByPartialCode(st, default_code, exclude_ids, down) ==
    LET parts == SignificantParts(default_code)
    IN  IF parts = <<>> THEN Found(<<>>)
        ELSE IF "partial" \in down THEN OnStoreError
        ELSE LET products == FirstN(SelectSeq(st, LAMBDA d : RegexAnyI(d.default_code, parts)),
                                    PartialStoreLimit)
                 kept == SelectSeq(products, LAMBDA d :
                            /\ d.id \notin exclude_ids
                            /\ Get(d.default_code) # default_code)
             IN  Found(FirstN(SerializeAll(kept), PartialResultLimit))

\* MatchResult(...) built from a serialized product
MakeResult(product, score, match_type) ==
    [product_id |-> product.id,
     product_name |-> IF product.name = Missing THEN <<>> ELSE product.name,
     default_code |-> Get(product.default_code),
     barcode |-> Get(product.barcode),
     constructeur |-> Get(product.constructeur),
     score |-> score,
     match_type |-> match_type]

\* cap value of the loops that have no "if len(matches) >= max_results: break"
NoCap == -1

\* variant: the loop without the seen_ids test
RECURSIVE AppendAll(_, _, _)
AppendAll(acc, results, cap) ==
    IF results = <<>> THEN acc
    ELSE LET r == Head(results)
             grown == [acc EXCEPT !.matches = Append(@, r),
                                  !.seen = @ \cup {r.product_id}]
         IN  IF cap # NoCap /\ Len(grown.matches) >= cap
             THEN grown
             ELSE AppendAll(grown, Tail(results), cap)

\* one "for product in ...: if product['_id'] not in seen_ids: ..." loop;
\* cap is max_results for the loops that break when the list is full
RECURSIVE AppendUnseen(_, _, _)
AppendUnseen(acc, results, cap) ==
    IF results = <<>> THEN acc
    ELSE LET r == Head(results)
         IN  IF r.product_id \in acc.seen
             THEN AppendUnseen(acc, Tail(results), cap)
             ELSE LET grown == [acc EXCEPT !.matches = Append(@, r),
                                           !.seen = @ \cup {r.product_id}]
                  IN  IF cap # NoCap /\ Len(grown.matches) >= cap
                      THEN grown
                      ELSE AppendUnseen(grown, Tail(results), cap)

\* a matcher's outcome enters find_matches: an exception leaves the
\* function, a list is looped over
Absorb(acc, matcher, found, results, cap) ==
    LET asked == [acc EXCEPT !.issued = @ \cup {matcher}]
    IN  IF found.raised THEN [asked EXCEPT !.raised = TRUE]
        ELSE AppendUnseen(asked, results, cap)

\* variant: the manufacturer names are compared as written
RefScoreRawCompare(constructeur, product) ==
    IF /\ Truthy(constructeur)
       /\ Truthy(product.constructeur)
       /\ constructeur = product.constructeur
    THEN (IF MATCH_SCORES.manufacturer_ref + RefBoost <= RefCap
          THEN MATCH_SCORES.manufacturer_ref + RefBoost ELSE RefCap)
    ELSE MATCH_SCORES.manufacturer_ref

\* score of a manufacturer_ref match: boosted when the manufacturer agrees
RefScore(constructeur, product) ==
    IF /\ Truthy(constructeur)
       /\ Truthy(product.constructeur)
       /\ Normalize(constructeur) = Normalize(product.constructeur)
    THEN (IF MATCH_SCORES.manufacturer_ref + RefBoost <= RefCap
          THEN MATCH_SCORES.manufacturer_ref + RefBoost ELSE RefCap)
    ELSE MATCH_SCORES.manufacturer_ref

\* variant: the high bucket starts strictly above 0.90
FuzzyTypeStrict(similarity) ==
    IF 100 * similarity.num > HighSimilarity * similarity.den THEN "fuzzy_name_high"
    ELSE "fuzzy_name_medium"

\* fuzzy bucket: similarity >= 0.90 is high, otherwise medium
FuzzyType(similarity) ==
    IF SimGeq(similarity, HighSimilarity) THEN "fuzzy_name_high"
    ELSE "fuzzy_name_medium"

\* variant: the list is returned in collection order
SortSkipped(s) == s

\* variant: a result goes in front of the results of equal score
InsertByScoreBeforeTies(sorted, r) ==
    LET k == Cardinality({i \in 1..Len(sorted) : sorted[i].score > r.score})
    IN  SubSeq(sorted, 1, k) \o <<r>> \o SubSeq(sorted, k + 1, Len(sorted))

\* matches.sort(key=lambda x: x.score, reverse=True): stable, by score
InsertByScore(sorted, r) ==
    LET k == Cardinality({i \in 1..Len(sorted) : sorted[i].score >= r.score})
    IN  SubSeq(sorted, 1, k) \o <<r>> \o SubSeq(sorted, k + 1, Len(sorted))

RECURSIVE SortByScoreDesc(_)
SortByScoreDesc(s) ==
    IF s = <<>> THEN <<>>
    ELSE InsertByScore(SortByScoreDesc(SubSeq(s, 1, Len(s) - 1)), s[Len(s)])

\* variant: the list is returned whole
TruncateSkipped(ms, max_results) == ms

\* return matches[:max_results]
Truncate(ms, max_results) == FirstN(ms, max_results)

\* Python "a or b"
PyOr(a, b) == IF Truthy(a) THEN a ELSE Get(b)

\* 1. exact barcode match
MatchBarcode(acc, st, barcode, down) ==
    IF ~Truthy(barcode) THEN acc
    ELSE LET f == FindByBarcode(st, barcode, down)
         IN  Absorb(acc, "barcode", f,
                    [i \in 1..Len(f.docs) |->
                       MakeResult(f.docs[i], MATCH_SCORES.exact_barcode, "exact_barcode")],
                    NoCap)

\* 2. exact Code EAN match
MatchEan(acc, st, code_ean, barcode, down) ==
    IF acc.raised \/ ~(Truthy(code_ean) /\ code_ean # barcode) THEN acc
    ELSE LET f == FindByCodeEan(st, code_ean, down)
         IN  Absorb(acc, "ean", f,
                    [i \in 1..Len(f.docs) |->
                       MakeResult(f.docs[i], MATCH_SCORES.exact_ean, "exact_ean")],
                    NoCap)

\* variant: the code stage does not look at seen_ids
MatchCodeFresh(acc, st, default_code, down) ==
    IF acc.raised \/ ~Truthy(default_code) THEN acc
    ELSE LET f == FindByDefaultCode(st, default_code, down)
         IN  Absorb([acc EXCEPT !.seen = {}], "code", f,
                    [i \in 1..Len(f.docs) |->
                       MakeResult(f.docs[i], MATCH_SCORES.exact_code, "exact_code")],
                    NoCap)

\* 3. exact default_code match
MatchCode(acc, st, default_code, down) ==
    IF acc.raised \/ ~Truthy(default_code) THEN acc
    ELSE LET f == FindByDefaultCode(st, default_code, down)
         IN  Absorb(acc, "code", f,
                    [i \in 1..Len(f.docs) |->
                       MakeResult(f.docs[i], MATCH_SCORES.exact_code, "exact_code")],
                    NoCap)

\* 4. manufacturer reference match
MatchRef(acc, st, ref_constructeur, constructeur, down) ==
    IF acc.raised \/ ~Truthy(ref_constructeur) THEN acc
    ELSE LET f == FindByManufacturerRef(st, ref_constructeur, constructeur, down)
         IN  Absorb(acc, "ref", f,
                    [i \in 1..Len(f.docs) |->
                       MakeResult(f.docs[i], RefScore(constructeur, f.docs[i]),
                                  "manufacturer_ref")],
                    NoCap)

\* variant: the fuzzy stage is left out
MatchFuzzyNever(acc, st, name, max_results, down) == acc

\* variant: the fuzzy stage runs whatever the length of the list
MatchFuzzyAlways(acc, st, name, max_results, down) ==
    IF acc.raised \/ ~Truthy(name) THEN acc
    ELSE IF SignificantWords(name) = <<>> THEN acc
    ELSE LET f == FindByFuzzyName(st, name, acc.seen, down)
         IN  Absorb(acc, "fuzzy", f,
                    [i \in 1..Len(f.docs) |->
                       MakeResult(f.docs[i].product,
                                  MATCH_SCORES[FuzzyType(f.docs[i].similarity)],
                                  FuzzyType(f.docs[i].similarity))],
                    max_results)

\* 5. fuzzy name matching, only while the list is short
MatchFuzzy(acc, st, name, max_results, down) ==
    IF acc.raised \/ ~(Len(acc.matches) < max_results /\ Truthy(name)) THEN acc
    ELSE IF SignificantWords(name) = <<>> THEN acc
    ELSE LET f == FindByFuzzyName(st, name, acc.seen, down)
         IN  Absorb(acc, "fuzzy", f,
                    [i \in 1..Len(f.docs) |->
                       MakeResult(f.docs[i].product,
                                  MATCH_SCORES[FuzzyType(f.docs[i].similarity)],
                                  FuzzyType(f.docs[i].similarity))],
                    max_results)

\* 6. partial code match, only while the list is short
MatchPartial(acc, st, default_code, max_results, down) ==
    IF acc.raised \/ ~(Truthy(default_code) /\ Len(acc.matches) < max_results) THEN acc
    ELSE IF SignificantParts(default_code) = <<>> THEN acc
    ELSE LET f == FindByPartialCode(st, default_code, acc.seen, down)
         IN  Absorb(acc, "partial", f,
                    [i \in 1..Len(f.docs) |->
                       MakeResult(f.docs[i], MATCH_SCORES.partial_code, "partial_code")],
                    max_results)

\* the end of find_matches: sort, slice, return (or the exception leaves)
Finish(acc, max_results) ==
    IF acc.raised
    THEN [outcome |-> "raised", matches |-> <<>>, issued |-> acc.issued]
    ELSE [outcome |-> "returned",
          matches |-> Truncate(SortByScoreDesc(acc.matches), max_results),
          issued |-> acc.issued]

\* MatchingService.find_matches; down is the set of matchers whose store
\* query fails during this call
FindMatches(st, product, max_results, down) ==
    LET barcode == Get(product.barcode)
        code_ean == PyOr(product.Code_EAN, product.code_ean)
        default_code == Get(product.default_code)
        ref_constructeur == PyOr(product.refConstructeur, product.ref_constructeur)
        constructeur == Get(product.constructeur)
        name == IF product.name = Missing THEN <<>> ELSE product.name
        start == [matches |-> <<>>, seen |-> {}, raised |-> FALSE, issued |-> {}]
    IN  Finish(
          MatchPartial(
            MatchFuzzy(
              MatchRef(
                MatchCode(
                  MatchEan(
                    MatchBarcode(start, st, barcode, down),
                    st, code_ean, barcode, down),
                  st, default_code, down),
                st, ref_constructeur, constructeur, down),
              st, name, max_results, down),
            st, default_code, max_results, down),
          max_results)

(***************************************************************************)
(* State                                                                   *)
(***************************************************************************)
VARIABLES
    store,          \* db.products, in natural (insertion) order
    odoo_product,   \* find_matches: the query record of the last call
    max_results,    \* find_matches: its max_results argument
    store_down,     \* find_matches: matchers whose store query failed
    outcome,        \* find_matches: "none", "returned" or "raised"
    matches,        \* find_matches: the returned list
    issued,         \* find_matches: matchers that queried the store
    pc,             \* create_product: position of every request
    product_data,   \* create_product: product_data of every request
    sources,        \* create_product: sources argument of every request
    existing,       \* enrich_existing_product: the document read by find_one
    result,         \* create_product: how every request ended
    ncalls,         \* number of create_product calls started so far
    written,        \* provenance entries handed to a completed insert/update
    failure,        \* enrich_existing_product: the exception that ended the call
    nwrites,        \* enrich_existing_product: update_one calls applied by the call
    dup_pc,         \* get_duplicates_by_code: position of the call
    dup_args,       \* get_duplicates_by_code: skip, limit, min_count
    total,          \* get_duplicates_by_code: the returned total
    groups          \* get_duplicates_by_code: the returned list of groups

matchVars == <<odoo_product, max_results, store_down, outcome, matches, issued>>
mergeVars == <<pc, product_data, sources, existing, result, ncalls, written,
               failure, nwrites>>
dupVars == <<dup_pc, dup_args, total, groups>>
vars == <<store, odoo_product, max_results, store_down, outcome, matches, issued,
          pc, product_data, sources, existing, result, ncalls, written,
          failure, nwrites, dup_pc, dup_args, total, groups>>

(***************************************************************************)
(* Bounds and the finite input sets                                        *)
(***************************************************************************)
\* stored documents in the matching scenarios
MaxStore == 3
\* stored documents when they all share one barcode (exceeds BarcodeLimit)
MaxSameBarcode == 6
\* largest max_results argument tried
MaxResultsArg == 2
\* concurrent create_product requests
NumRequests == 2
\* create_product calls in one run
MaxCalls == 3

\* default of the max_results argument of find_matches
DefaultMaxResults == 10

\* fields of product_data that carry a confidence score
ScoredFields == {"default_code", "barcode", "Code_EAN", "name", "constructeur"}
\* "no entry" in a confidence map
NoScore == -1
NoScores == [f \in ScoredFields |-> NoScore]

B1 == <<"1">>
B2 == <<"2">>
CodeAB1 == <<"a", "b", "1">>
CodeAB1x == <<"A", "B", "1", "-", "x">>
RefR == <<"r">>
QueryName == <<"a","b","c","d"," ","e","f","g","h","i">>

\* documents the matching scenarios draw from
DocSame == [default_code |-> CodeAB1, barcode |-> B1, Code_EAN |-> Missing,
            code_ean |-> Missing, ref_constructeur |-> Missing,
            constructeur |-> NullStr,
            name |-> <<"A","B","C","D"," "," ","e","f","g","h","i"," ">>]
DocBarcode == [default_code |-> Missing, barcode |-> B1, Code_EAN |-> B2,
               code_ean |-> Missing, ref_constructeur |-> Missing,
               constructeur |-> Missing,
               name |-> <<"a","b","c","d"," ","e","f","g","h","x">>]
DocRefBoost == [default_code |-> CodeAB1x, barcode |-> Missing, Code_EAN |-> Missing,
                code_ean |-> Missing, ref_constructeur |-> RefR,
                constructeur |-> <<" ","A","c","m","e">>,
                name |-> <<"a","b","c","d"," ","e","f","x","y","z">>]
DocRefPlain == [default_code |-> Missing, barcode |-> None, Code_EAN |-> Missing,
                code_ean |-> B2, ref_constructeur |-> RefR,
                constructeur |-> <<"B","o","l","t">>,
                name |-> <<"a","b","c","d"," ","e","x","y","z","w">>]
DocName == [default_code |-> Missing, barcode |-> B2, Code_EAN |-> Missing,
            code_ean |-> Missing, ref_constructeur |-> Missing,
            constructeur |-> Missing,
            name |-> <<"a","b","c","d"," ","e","f","g">>]

CatalogDocs == {DocSame, DocBarcode, DocRefBoost, DocRefPlain, DocName}
SameBarcodeDocs == {DocSame, DocBarcode}

\* query records: the Odoo product handed to find_matches
Queries ==
    {[barcode |-> b, Code_EAN |-> e, code_ean |-> Missing, default_code |-> c,
      refConstructeur |-> r[1], ref_constructeur |-> Missing,
      constructeur |-> r[2], name |-> n] :
        b \in {None, B1}, e \in {None, B1, B2}, c \in {None, CodeAB1},
        r \in {<<None, None>>, <<RefR, None>>, <<RefR, <<"A","C","M","E">>>>},
        n \in {<<>>, QueryName}}

\* the query used when a store query fails: every matcher is triggered
FullQuery == [barcode |-> B1, Code_EAN |-> B2, code_ean |-> Missing,
              default_code |-> CodeAB1, refConstructeur |-> RefR,
              ref_constructeur |-> Missing, constructeur |-> <<"A","C","M","E">>,
              name |-> QueryName]

NoQuery == [barcode |-> None, Code_EAN |-> None, code_ean |-> Missing,
            default_code |-> None, refConstructeur |-> None,
            ref_constructeur |-> Missing, constructeur |-> None, name |-> <<>>]

Requests == 1..NumRequests

\* variant: the index on default_code is not unique
DuplicateKeyIgnored(st, doc) == FALSE

\* variant: the index compares with the newest stored record only
DuplicateKeyNewestOnly(st, doc) ==
    /\ doc.default_code # Missing
    /\ Len(st) >= 1
    /\ st[Len(st)].default_code = doc.default_code

\* the unique sparse index on default_code (Database._create_indexes):
\* a document that has the field collides with a stored one of equal value
DuplicateKey(st, doc) ==
    /\ doc.default_code # Missing
    /\ \E i \in 1..Len(st) : st[i].default_code = doc.default_code

\* insert_one: the document is appended with a fresh _id
InsertOne(st, doc) == Append(st, doc)

NewId(st) == Len(st) + 1

Init ==
    /\ store = <<>>
    /\ odoo_product = NoQuery
    /\ max_results = 1
    /\ store_down = {}
    /\ outcome = "none"
    /\ matches = <<>>
    /\ issued = {}
    /\ pc = [r \in Requests |-> "idle"]
    /\ product_data = [r \in Requests |-> <<>>]
    /\ sources = [r \in Requests |-> <<>>]
    /\ existing = [r \in Requests |-> <<>>]
    /\ result = [r \in Requests |-> "none"]
    /\ ncalls = 0
    /\ written = {}
    /\ failure = [r \in Requests |-> "none"]
    /\ nwrites = [r \in Requests |-> 0]
    /\ dup_pc = "idle"
    /\ dup_args = [skip |-> 0, limit |-> 1, min_count |-> 1]
    /\ total = 0
    /\ groups = <<>>

(***************************************************************************)
(* Matching scenarios                                                      *)
(***************************************************************************)
\* a stored catalog document: the fields of the template plus bookkeeping
CatalogDoc(id, t) ==
    [id |-> id, default_code |-> t.default_code, barcode |-> t.barcode,
     Code_EAN |-> t.Code_EAN, code_ean |-> t.code_ean,
     ref_constructeur |-> t.ref_constructeur, constructeur |-> t.constructeur,
     name |-> t.name, sources |-> <<>>, scores |-> NoScores, updated_at |-> 0]

\* StorageService.bulk_insert_products with one product: insert_many stores
\* the document unless the unique index rejects it
BulkInsert(t) ==
    /\ outcome = "none"
    /\ \/ Len(store) < MaxStore
       \/ /\ Len(store) < MaxSameBarcode
          /\ t \in SameBarcodeDocs
          /\ \A i \in 1..Len(store) : store[i].barcode = B1
    /\ ~DuplicateKey(store, t)
    /\ store' = InsertOne(store, CatalogDoc(NewId(store), t))
    /\ UNCHANGED matchVars
    /\ UNCHANGED mergeVars
    /\ UNCHANGED dupVars

\* one call of find_matches.  The call only reads the store, so every
\* scenario is a catalog followed by one call.
FindMatchesCall(q, n, down) ==
    /\ outcome = "none"
    /\ odoo_product' = q
    /\ max_results' = n
    /\ store_down' = down
    /\ LET r == FindMatches(store, q, n, down)
       IN  /\ outcome' = r.outcome
           /\ matches' = r.matches
           /\ issued' = r.issued
    /\ UNCHANGED store
    /\ UNCHANGED mergeVars
    /\ UNCHANGED dupVars

NextMatch ==
    \/ \E t \in CatalogDocs : BulkInsert(t)
    \/ \E q \in Queries, n \in (1..MaxResultsArg) \cup {DefaultMaxResults} :
          FindMatchesCall(q, n, {})
    \/ \E n \in 1..MaxResultsArg, m \in Range(Matchers) : FindMatchesCall(FullQuery, n, {m})

SpecMatch == Init /\ [][NextMatch]_vars

(***************************************************************************)
(* Properties of find_matches                                              *)
(***************************************************************************)
Called == outcome # "none"

QBarcode == Get(odoo_product.barcode)
QName == IF odoo_product.name = Missing THEN <<>> ELSE odoo_product.name

ResultIds == {matches[i].product_id : i \in 1..Len(matches)}

IdentityTypes == {"exact_barcode", "exact_ean", "exact_code", "manufacturer_ref"}
FuzzyTypes == {"fuzzy_name_high", "fuzzy_name_medium"}

\* the stored document with the given _id
DocById(id) == store[CHOOSE i \in 1..Len(store) : store[i].id = id]

\* C1: the list returned by find_matches contains every candidate product
\* id at most once, whichever matchers found the record.
C1_NoDuplicateIds ==
    \A i, j \in 1..Len(matches) :
        i # j => matches[i].product_id # matches[j].product_id

\* a returned list of two results, one of them a record that satisfies both
\* the barcode and the internal-code criterion of the query
C1_Witness ==
    /\ outcome = "returned"
    /\ Len(matches) >= 2
    /\ Truthy(QBarcode)
    /\ Truthy(odoo_product.default_code)
    /\ \E i \in 1..Len(matches) :
          /\ DocById(matches[i].product_id).barcode = QBarcode
          /\ DocById(matches[i].product_id).default_code = odoo_product.default_code

\* C2: the list returned by find_matches is sorted by score in
\* non-increasing order.
C2_SortedByScore ==
    \A i \in 1..(Len(matches) - 1) : matches[i].score >= matches[i + 1].score

\* the store returned the lower-scored manufacturer match first and the
\* returned list has the higher-scored one first
C2_Witness ==
    /\ outcome = "returned"
    /\ \E i, j \in 1..Len(matches) :
          /\ i < j
          /\ matches[i].match_type = "manufacturer_ref"
          /\ matches[j].match_type = "manufacturer_ref"
          /\ matches[i].score > matches[j].score
          /\ matches[i].product_id > matches[j].product_id

\* C3: find_matches returns at most max_results results, also when the
\* identity matchers alone collect more than max_results candidates.
C3_AtMostMaxResults == Len(matches) <= max_results

\* more stored records carry the query's barcode than max_results allows
C3_Witness ==
    /\ outcome = "returned"
    /\ Truthy(QBarcode)
    /\ Cardinality({i \in 1..Len(store) : store[i].barcode = QBarcode}) > max_results
    /\ Len(matches) = max_results

\* number of stored records up to position i that carry the barcode of store[i]
BarcodeRank(i) == Cardinality({k \in 1..i : store[k].barcode = store[i].barcode})

HasBarcodeResult(id) ==
    \E k \in 1..Len(matches) :
        /\ matches[k].product_id = id
        /\ matches[k].score = 100
        /\ matches[k].match_type = "exact_barcode"

\* C4 as stated: every stored record whose barcode equals the query's
\* non-empty barcode is in the returned list with score 1.00 and match_type
\* exact_barcode, for every max_results and every number of such records.
C4_Original ==
    (Called /\ Truthy(QBarcode)) =>
        \A i \in 1..Len(store) :
            store[i].barcode = QBarcode => HasBarcodeResult(store[i].id)

\* C4 amended: when the barcode query succeeds, a stored record with the
\* query's barcode is returned with score 1.00 and match_type exact_barcode
\* exactly when it is among the first min(5, max_results) stored records
\* carrying that barcode.
C4_BarcodeWithinLimits ==
    (Called /\ Truthy(QBarcode) /\ "barcode" \notin store_down) =>
        \A i \in 1..Len(store) :
            store[i].barcode = QBarcode =>
                (HasBarcodeResult(store[i].id)
                    <=> (BarcodeRank(i) <= 5 /\ BarcodeRank(i) <= max_results))

\* two records carry the query's barcode and both are returned as
\* exact_barcode
C4_Witness ==
    /\ outcome = "returned"
    /\ Truthy(QBarcode)
    /\ max_results >= 2
    /\ \E i \in 1..Len(store) :
          /\ store[i].barcode = QBarcode
          /\ BarcodeRank(i) = 2
          /\ HasBarcodeResult(store[i].id)

\* C5: every returned MatchResult has a score in [0,1] fixed by its
\* match_type: exact_barcode and exact_ean 1.00, exact_code 0.95,
\* manufacturer_ref 0.85 or 0.95, fuzzy_name_high 0.75, fuzzy_name_medium
\* 0.60, partial_code 0.50.
C5_ScoreByType ==
    \A i \in 1..Len(matches) :
        LET r == matches[i]
        IN  /\ r.score >= 0 /\ r.score <= 100
            /\ r.match_type \in {"exact_barcode", "exact_ean"} => r.score = 100
            /\ r.match_type = "exact_code" => r.score = 95
            /\ r.match_type = "manufacturer_ref" => r.score \in {85, 95}
            /\ r.match_type = "fuzzy_name_high" => r.score = 75
            /\ r.match_type = "fuzzy_name_medium" => r.score = 60
            /\ r.match_type = "partial_code" => r.score = 50
            /\ r.match_type \in {"exact_barcode", "exact_ean", "exact_code",
                                 "manufacturer_ref", "fuzzy_name_high",
                                 "fuzzy_name_medium", "partial_code"}

\* an exact_code result next to a result of another matcher
C5_Witness ==
    /\ outcome = "returned"
    /\ \E i, j \in 1..Len(matches) :
          /\ matches[i].match_type = "exact_code"
          /\ matches[j].match_type \in {"manufacturer_ref", "partial_code"}

\* stored records the fuzzy matcher examines: the name contains a
\* significant word of the query name and no identity matcher took them
FuzzyExamined ==
    {i \in 1..Len(store) :
        /\ RegexAnyI(store[i].name, SignificantWords(QName))
        /\ ~\E k \in 1..Len(matches) :
              /\ matches[k].product_id = store[i].id
              /\ matches[k].match_type \in IdentityTypes}

NameSimilarity(i) == CalculateSimilarity(QName, Get(store[i].name))

IdentityCount ==
    Cardinality({k \in 1..Len(matches) : matches[k].match_type \in IdentityTypes})

\* C6: a candidate of the fuzzy name matcher with similarity >= 0.90 gets
\* score 0.75, one with similarity in [0.70, 0.90) gets 0.60, and one below
\* 0.70 never gets a fuzzy result.  Every fuzzy result obeys the buckets,
\* and while the list has room every examined candidate at or above 0.70
\* is returned.
C6_FuzzyBuckets ==
    (outcome = "returned") =>
        /\ \A k \in 1..Len(matches) :
              LET r == matches[k]
                  sim == CalculateSimilarity(QName, Get(DocById(r.product_id).name))
              IN  /\ r.match_type = "fuzzy_name_high" =>
                        (100 * sim.num >= 90 * sim.den /\ r.score = 75)
                  /\ r.match_type = "fuzzy_name_medium" =>
                        /\ 100 * sim.num >= 70 * sim.den
                        /\ 100 * sim.num < 90 * sim.den
                        /\ r.score = 60
        /\ ("fuzzy" \in issued /\ "fuzzy" \notin store_down) =>
              LET eligible == {i \in FuzzyExamined :
                                  100 * NameSimilarity(i).num >= 70 * NameSimilarity(i).den}
              IN  (Cardinality(eligible) <= max_results - IdentityCount) =>
                      \A i \in eligible :
                          \E k \in 1..Len(matches) :
                              /\ matches[k].product_id = store[i].id
                              /\ matches[k].match_type \in FuzzyTypes

\* a high and a medium fuzzy result, and an examined record below 0.70
\* that is left out
C6_Witness ==
    /\ outcome = "returned"
    /\ \E k \in 1..Len(matches) : matches[k].match_type = "fuzzy_name_high"
    /\ \E k \in 1..Len(matches) : matches[k].match_type = "fuzzy_name_medium"
    /\ \E i \in FuzzyExamined :
          /\ 100 * NameSimilarity(i).num < 70 * NameSimilarity(i).den
          /\ store[i].id \notin ResultIds

\* match types a matcher produces
TypesOf(m) ==
    CASE m = "barcode" -> {"exact_barcode"}
      [] m = "ean" -> {"exact_ean"}
      [] m = "code" -> {"exact_code"}
      [] m = "ref" -> {"manufacturer_ref"}
      [] m = "fuzzy" -> FuzzyTypes
      [] m = "partial" -> {"partial_code"}

\* some matcher's store query failed during the call
QueryFailed == Called /\ (store_down \cap issued) # {}

\* C7 as stated: when a store query issued by a matcher fails, the failure
\* propagates to the caller of find_matches and no list is returned.
C7_Original == QueryFailed => outcome = "raised"

\* C7 amended: when a store query issued by a matcher fails, the matcher
\* contributes no result, exactly as for an empty query result, and
\* find_matches still returns the list built by the other matchers.
C7_FailureSwallowed ==
    QueryFailed =>
        /\ outcome = "returned"
        /\ \A m \in store_down \cap issued :
              \A k \in 1..Len(matches) : matches[k].match_type \notin TypesOf(m)

\* the barcode query failed although a stored record carries the barcode,
\* and the other matchers still produced results
C7_Witness ==
    /\ QueryFailed
    /\ "barcode" \in store_down
    /\ \E i \in 1..Len(store) : store[i].barcode = QBarcode
    /\ Len(matches) >= 1

(***************************************************************************)
(* StorageService.create_product and enrich_existing_product               *)
(***************************************************************************)
\* confidence used when a field has no entry: dict.get(field, 0.5)
DefaultConfidence == 50

CodeA1 == <<"A", "1">>
NameW == <<"W">>
NameV == <<"V">>
MakerK == <<"K">>

Conf(name_score) == [NoScores EXCEPT !["name"] = name_score]

\* product_data of the create_product calls: one internal code, names and
\* name confidences that are absent, null, blank, lower, equal and higher
ProductInputs ==
    {[default_code |-> CodeA1, barcode |-> Missing, Code_EAN |-> Missing,
      name |-> x[1], constructeur |-> x[2], confidence_scores |-> Conf(x[3])] :
        x \in {<<NameW, MakerK, NoScore>>,
               <<NameV, Missing, 90>>,
               <<NameW, Missing, 90>>,
               <<NameV, Missing, 30>>,
               <<None, MakerK, NoScore>>,
               <<<<" ">>, Missing, 90>>,
               <<Missing, Missing, NoScore>>}}

\* the document create_product prepares: product_data without
\* confidence_scores and without falsy identity fields, plus sources,
\* extraction_metadata.field_confidence_scores and the timestamp
NewDocument(id, data, srcs, now) ==
    LET unique(v) == IF Truthy(v) THEN v ELSE Missing
    IN  [id |-> id,
         default_code |-> unique(data.default_code),
         barcode |-> unique(data.barcode),
         Code_EAN |-> unique(data.Code_EAN),
         code_ean |-> Missing,
         ref_constructeur |-> Missing,
         constructeur |-> data.constructeur,
         name |-> data.name,
         sources |-> srcs,
         scores |-> data.confidence_scores,
         updated_at |-> now]

\* variant: the barcode is tried before the internal code
IdentityFieldBarcodeFirst(data) ==
    IF Truthy(data.barcode) THEN "barcode"
    ELSE IF Truthy(data.default_code) THEN "default_code"
    ELSE IF Truthy(data.Code_EAN) THEN "Code_EAN"
    ELSE "none"

\* variant: without an identity the query falls back to default_code
IdentityFieldNoCheck(data) ==
    IF Truthy(data.default_code) THEN "default_code"
    ELSE IF Truthy(data.barcode) THEN "barcode"
    ELSE IF Truthy(data.Code_EAN) THEN "Code_EAN"
    ELSE "default_code"

\* the identity query of enrich_existing_product: default_code, else
\* barcode, else Code_EAN; "none" when the data has no identity
IdentityField(data) ==
    IF Truthy(data.default_code) THEN "default_code"
    ELSE IF Truthy(data.barcode) THEN "barcode"
    ELSE IF Truthy(data.Code_EAN) THEN "Code_EAN"
    ELSE "none"

\* find_one(query): position of the first matching document, 0 if none
FindOne(st, field, value) ==
    IF \E i \in 1..Len(st) : st[i][field] = value
    THEN CHOOSE i \in 1..Len(st) :
            /\ st[i][field] = value
            /\ \A k \in 1..(i - 1) : st[k][field] # value
    ELSE 0

\* find_one({"_id": id})
FindById(st, id) ==
    IF \E i \in 1..Len(st) : st[i].id = id
    THEN CHOOSE i \in 1..Len(st) : st[i].id = id
    ELSE 0

\* "skip if new value is None or empty"
SkipValue(new_value) ==
    new_value = Missing \/ new_value = None \/ IsBlankStr(new_value)

ConfidenceOf(scores, field) ==
    IF scores[field] = NoScore THEN DefaultConfidence ELSE scores[field]

\* variant: an incoming value of equal confidence also replaces the stored one
ShouldUpdateOnTie(existing_value, new_confidence, existing_confidence) ==
    \/ Get(existing_value) = None
    \/ IsBlankStr(existing_value)
    \/ new_confidence >= existing_confidence

\* should_update of the merge loop
ShouldUpdate(existing_value, new_confidence, existing_confidence) ==
    \/ Get(existing_value) = None
    \/ IsBlankStr(existing_value)
    \/ new_confidence > existing_confidence

\* the fields the merge loop overwrites
UpdatedFields(ex, data) ==
    {f \in ScoredFields :
        /\ ~SkipValue(data[f])
        /\ ShouldUpdate(ex[f], ConfidenceOf(data.confidence_scores, f),
                        ConfidenceOf(ex.scores, f))}

\* variant: every incoming field that is not skipped takes the incoming
\* confidence, overwritten or not
MergedScoresIncoming(ex, data) ==
    [f \in ScoredFields |->
        IF ~SkipValue(data[f])
        THEN ConfidenceOf(data.confidence_scores, f)
        ELSE ex.scores[f]]

\* variant: the entries of the fields that are not overwritten are dropped
MergedScoresForget(ex, data) ==
    [f \in ScoredFields |->
        IF f \in UpdatedFields(ex, data)
        THEN ConfidenceOf(data.confidence_scores, f)
        ELSE NoScore]

\* existing_scores after the merge loop
MergedScores(ex, data) ==
    [f \in ScoredFields |->
        IF f \in UpdatedFields(ex, data)
        THEN ConfidenceOf(data.confidence_scores, f)
        ELSE ex.scores[f]]

\* merged_sources = existing_sources + new_sources
MergedSources(ex, srcs) == ex.sources \o srcs

\* variant: the update writes a whole new document made of the $set keys
ApplyReplace(doc, ex, data, srcs, now) ==
    [id |-> doc.id,
     default_code |-> IF "default_code" \in UpdatedFields(ex, data)
                      THEN data.default_code ELSE Missing,
     barcode |-> IF "barcode" \in UpdatedFields(ex, data) THEN data.barcode ELSE Missing,
     Code_EAN |-> IF "Code_EAN" \in UpdatedFields(ex, data) THEN data.Code_EAN ELSE Missing,
     code_ean |-> Missing,
     ref_constructeur |-> Missing,
     constructeur |-> IF "constructeur" \in UpdatedFields(ex, data)
                      THEN data.constructeur ELSE Missing,
     name |-> IF "name" \in UpdatedFields(ex, data) THEN data.name ELSE Missing,
     sources |-> MergedSources(ex, srcs),
     scores |-> MergedScores(ex, data),
     updated_at |-> now]

\* update_one({"_id": ...}, {"$set": {**updates, scores, sources, updated_at}})
\* applied to the stored document: only the $set keys change
ApplySet(doc, ex, data, srcs, now) ==
    [doc EXCEPT
        !.default_code = IF "default_code" \in UpdatedFields(ex, data)
                         THEN data.default_code ELSE @,
        !.barcode = IF "barcode" \in UpdatedFields(ex, data) THEN data.barcode ELSE @,
        !.Code_EAN = IF "Code_EAN" \in UpdatedFields(ex, data) THEN data.Code_EAN ELSE @,
        !.constructeur = IF "constructeur" \in UpdatedFields(ex, data)
                         THEN data.constructeur ELSE @,
        !.name = IF "name" \in UpdatedFields(ex, data) THEN data.name ELSE @,
        !.scores = MergedScores(ex, data),
        !.sources = MergedSources(ex, srcs),
        !.updated_at = now]

\* variant: create_product lets the error of the merge through as it is
EnrichmentFailedUnchanged(e) == e

\* ValueError(f"Product already exists and enrichment failed: {enrich_error}"):
\* a new ValueError whose message ends with the text of the caught error
EnrichmentFailed(e) ==
    CASE e = "no_identity" -> "enrichment failed: no_identity"
      [] e = "not_found" -> "enrichment failed: not_found"
      [] e = "store_error" -> "enrichment failed: store_error"

\* the class of the exception a caller catches: the two ValueErrors of
\* enrich_existing_product and the ValueError of create_product's fallback
\* on one side, the error of the store driver on the other
ErrorType(e) == IF e = "store_error" THEN "PyMongoError" ELSE "ValueError"

\* the exception that leaves the call of request r when e is raised inside
\* enrich_existing_product: as it is to a direct caller, through the
\* except clause of create_product when the merge is its fallback
Leaves(r, e) == IF result[r] = "create_fallback" THEN EnrichmentFailed(e) ELSE e

\* create_product up to the end of insert_one: the document is stored and
\* the call returns, or the unique index raises DuplicateKeyError and the
\* call goes on into enrich_existing_product.  Request slots are
\* interchangeable: a new call takes the lowest idle one.
CreateProduct(r, data) ==
    /\ pc[r] = "idle"
    /\ \A q \in Requests : q < r => pc[q] # "idle"
    /\ ncalls < MaxCalls
    /\ ncalls' = ncalls + 1
    /\ failure' = [failure EXCEPT ![r] = "none"]
    /\ nwrites' = [nwrites EXCEPT ![r] = 0]
    /\ LET document == NewDocument(NewId(store), data, <<ncalls + 1>>, ncalls + 1)
       IN  IF DuplicateKey(store, document)
           THEN /\ pc' = [pc EXCEPT ![r] = "enrich_find"]
                /\ product_data' = [product_data EXCEPT ![r] = data]
                /\ sources' = [sources EXCEPT ![r] = <<ncalls + 1>>]
                /\ result' = [result EXCEPT ![r] = "create_fallback"]
                /\ UNCHANGED <<store, written>>
           ELSE /\ store' = InsertOne(store, document)
                /\ written' = written \cup {ncalls + 1}
                /\ result' = [result EXCEPT ![r] = "created"]
                /\ UNCHANGED <<pc, product_data, sources>>
    /\ UNCHANGED existing
    /\ UNCHANGED matchVars
    /\ UNCHANGED dupVars

\* enrich_existing_product up to the end of find_one(query)
EnrichFind(r) ==
    /\ pc[r] = "enrich_find"
    /\ LET field == IdentityField(product_data[r])
           at == IF field = "none" THEN 0
                 ELSE FindOne(store, field, product_data[r][field])
       IN  IF at = 0
           THEN /\ pc' = [pc EXCEPT ![r] = "idle"]
                /\ result' = [result EXCEPT ![r] = "error"]
                /\ failure' = [failure EXCEPT ![r] =
                                  Leaves(r, IF field = "none" THEN "no_identity"
                                            ELSE "not_found")]
                /\ product_data' = [product_data EXCEPT ![r] = <<>>]
                /\ sources' = [sources EXCEPT ![r] = <<>>]
                /\ UNCHANGED existing
           ELSE /\ pc' = [pc EXCEPT ![r] = "enrich_update"]
                /\ existing' = [existing EXCEPT ![r] = store[at]]
                /\ UNCHANGED <<result, product_data, sources, failure>>
    /\ UNCHANGED <<store, ncalls, written, nwrites>>
    /\ UNCHANGED matchVars
    /\ UNCHANGED dupVars

\* the merge loop and update_one
EnrichUpdate(r) ==
    /\ pc[r] = "enrich_update"
    /\ LET at == FindById(store, existing[r].id)
       IN  store' = IF at = 0 THEN store
                    ELSE [store EXCEPT ![at] =
                            ApplySet(@, existing[r], product_data[r], sources[r], ncalls)]
    /\ written' = written \cup Range(sources[r])
    /\ nwrites' = [nwrites EXCEPT ![r] = @ + 1]
    /\ pc' = [pc EXCEPT ![r] = "enrich_reread"]
    /\ UNCHANGED <<product_data, sources, existing, result, ncalls, failure>>
    /\ UNCHANGED matchVars
    /\ UNCHANGED dupVars

\* the final find_one({"_id": ...}) and the return to create_product's
\* caller; the locals of the call are gone
EnrichReturn(r) ==
    /\ pc[r] = "enrich_reread"
    /\ pc' = [pc EXCEPT ![r] = "idle"]
    /\ result' = [result EXCEPT ![r] = "enriched"]
    /\ product_data' = [product_data EXCEPT ![r] = <<>>]
    /\ sources' = [sources EXCEPT ![r] = <<>>]
    /\ existing' = [existing EXCEPT ![r] = <<>>]
    /\ UNCHANGED <<store, ncalls, written, failure, nwrites>>
    /\ UNCHANGED matchVars
    /\ UNCHANGED dupVars

NextMerge ==
    \/ \E r \in Requests, data \in ProductInputs : CreateProduct(r, data)
    \/ \E r \in Requests : EnrichFind(r)
    \/ \E r \in Requests : EnrichUpdate(r)
    \/ \E r \in Requests : EnrichReturn(r)

SpecMerge == Init /\ [][NextMerge]_vars

(***************************************************************************)
(* Properties of the merge                                                 *)
(***************************************************************************)
\* the product fields of a stored document (sources, the confidence map
\* and the timestamp are present on every document)
DocFields == {"default_code", "barcode", "Code_EAN", "code_ean", "ref_constructeur",
              "constructeur", "name"}

\* a value that is a string made of whitespace only (the empty string included)
OnlyWhitespace(v) ==
    /\ v # None
    /\ v # Missing
    /\ \A k \in 1..Len(v) : v[k] \in {" ", "\t", "\n"}

NullOrBlank(v) == v = Missing \/ v = None \/ OnlyWhitespace(v)

\* request r performs the update of its merge in this step
MergeStep(r) == pc[r] = "enrich_update" /\ pc'[r] = "enrich_reread"

\* position of the document request r merges into
TargetOf(r) == CHOOSE i \in 1..Len(store) : store[i].id = existing[r].id

\* C8: in a merge, a field whose incoming value is not null or blank is
\* overwritten with the incoming value if and only if the value of the
\* existing record (as read by the merge) is null/blank or the incoming
\* confidence (0.5 when absent) is strictly greater than the existing
\* confidence (0.5 when absent); otherwise the stored value is kept, and a
\* null or blank incoming value never changes the field.
C8_MergeRule ==
    [][\A r \in Requests :
         MergeStep(r) =>
            \A f \in ScoredFields :
               LET incoming == product_data[r][f]
                   before == existing[r][f]
                   new_conf == IF product_data[r].confidence_scores[f] = -1 THEN 50
                               ELSE product_data[r].confidence_scores[f]
                   old_conf == IF existing[r].scores[f] = -1 THEN 50
                               ELSE existing[r].scores[f]
                   i == TargetOf(r)
               IN  IF NullOrBlank(incoming) THEN store'[i][f] = store[i][f]
                   ELSE IF NullOrBlank(before) \/ new_conf > old_conf
                        THEN store'[i][f] = incoming
                        ELSE store'[i][f] = store[i][f]]_vars

\* a merge whose update is written replaced a non-blank name by an
\* incoming name of higher confidence
C8_Witness ==
    \E r \in Requests :
        /\ pc[r] = "enrich_reread"
        /\ ~NullOrBlank(existing[r].name)
        /\ ~NullOrBlank(product_data[r].name)
        /\ existing[r].name # product_data[r].name
        /\ product_data[r].confidence_scores["name"] > existing[r].scores["name"]
        /\ existing[r].scores["name"] # -1
        /\ store[TargetOf(r)].name = product_data[r].name

\* C9: a merge never removes a field of the stored record: every field
\* present before a step is present after it, also when the incoming data
\* lacks the field.
C9_NoFieldRemoved ==
    [][\A i \in 1..Len(store) :
         \A f \in DocFields :
            store[i][f] # Missing => (i <= Len(store') /\ store'[i][f] # Missing)]_vars

\* a merge whose update is written and whose incoming data had no
\* constructeur, into a record that has one
C9_Witness ==
    \E r \in Requests :
        /\ pc[r] = "enrich_reread"
        /\ product_data[r].constructeur = Missing
        /\ existing[r].constructeur # Missing
        /\ store[TargetOf(r)].constructeur = existing[r].constructeur

\* all provenance entries held by the stored records
StoredSources == UNION {Range(store[i].sources) : i \in 1..Len(store)}

\* C10: after any merges, run one after another or interleaved, the
\* record's sources hold every entry they had before and every entry
\* supplied by each completed merge.
C10_SourcesKept == written \subseteq StoredSources

(***************************************************************************)
(* enrich_existing_product on incoming data of every identity shape,       *)
(* one call after another, with store failures                             *)
(***************************************************************************)
\* product_data with the given identity fields
WithIdentity(dc, bc, ean) ==
    [default_code |-> dc, barcode |-> bc, Code_EAN |-> ean,
     name |-> NameW, constructeur |-> Missing, confidence_scores |-> NoScores]

\* incoming data: each identity field alone, all of them, barcode and EAN
\* behind an empty internal code, and no identity at all
IdentityInputs ==
    {WithIdentity(CodeA1, Missing, Missing),
     WithIdentity(Missing, B1, Missing),
     WithIdentity(None, <<>>, B2),
     WithIdentity(CodeA1, B1, B2),
     WithIdentity(<<>>, B1, B2),
     WithIdentity(Missing, None, <<>>)}

\* no call is in progress
AllIdle == \A q \in Requests : pc[q] = "idle"

\* a caller invokes enrich_existing_product itself
EnrichExistingProduct(r, data) ==
    /\ pc[r] = "idle"
    /\ \A q \in Requests : q < r => pc[q] # "idle"
    /\ ncalls < MaxCalls
    /\ ncalls' = ncalls + 1
    /\ product_data' = [product_data EXCEPT ![r] = data]
    /\ sources' = [sources EXCEPT ![r] = <<ncalls + 1>>]
    /\ pc' = [pc EXCEPT ![r] = "enrich_find"]
    /\ result' = [result EXCEPT ![r] = "pending"]
    /\ failure' = [failure EXCEPT ![r] = "none"]
    /\ nwrites' = [nwrites EXCEPT ![r] = 0]
    /\ UNCHANGED <<store, existing, written>>
    /\ UNCHANGED matchVars
    /\ UNCHANGED dupVars

\* the exception leaves enrich_existing_product ("except Exception: raise")
\* and, in the fallback of create_product, create_product
Raise(r) ==
    /\ pc' = [pc EXCEPT ![r] = "idle"]
    /\ result' = [result EXCEPT ![r] = "error"]
    /\ failure' = [failure EXCEPT ![r] = Leaves(r, "store_error")]
    /\ product_data' = [product_data EXCEPT ![r] = <<>>]
    /\ sources' = [sources EXCEPT ![r] = <<>>]
    /\ existing' = [existing EXCEPT ![r] = <<>>]
    /\ UNCHANGED <<store, ncalls, written, nwrites>>
    /\ UNCHANGED matchVars
    /\ UNCHANGED dupVars

\* find_one(query) raises
FindOneFails(r) ==
    /\ pc[r] = "enrich_find"
    /\ IdentityField(product_data[r]) # "none"
    /\ Raise(r)

\* update_one raises: nothing is written
UpdateOneFails(r) ==
    /\ pc[r] = "enrich_update"
    /\ Raise(r)

\* the final find_one({"_id": ...}) raises, after update_one was applied
RereadFails(r) ==
    /\ pc[r] = "enrich_reread"
    /\ Raise(r)

\* calls made one after another: a call starts when no other is in progress
SequentialCreate(r, data) == AllIdle /\ CreateProduct(r, data)

SequentialEnrich(r, data) == AllIdle /\ EnrichExistingProduct(r, data)

NextIdentity ==
    \/ \E r \in Requests, data \in IdentityInputs : SequentialCreate(r, data)
    \/ \E r \in Requests, data \in IdentityInputs : SequentialEnrich(r, data)
    \/ \E r \in Requests : EnrichFind(r)
    \/ \E r \in Requests : FindOneFails(r)
    \/ \E r \in Requests : EnrichUpdate(r)
    \/ \E r \in Requests : UpdateOneFails(r)
    \/ \E r \in Requests : EnrichReturn(r)
    \/ \E r \in Requests : RereadFails(r)

SpecIdentity == Init /\ [][NextIdentity]_vars

\* request r has read the record it merges into
HasTarget(r) == pc[r] \in {"enrich_update", "enrich_reread"}

\* C11: enrich_existing_product locates the record to merge into by the
\* first non-empty identity field of the incoming data in the order
\* default_code, barcode, Code_EAN: the barcode only when default_code is
\* empty, the EAN code only when both are empty.
C11_IdentityPrecedence ==
    \A r \in Requests :
        HasTarget(r) =>
            LET d == product_data[r]
                e == existing[r]
            IN  /\ Truthy(d.default_code) => e.default_code = d.default_code
                /\ (~Truthy(d.default_code) /\ Truthy(d.barcode)) =>
                        e.barcode = d.barcode
                /\ (~Truthy(d.default_code) /\ ~Truthy(d.barcode)) =>
                        (Truthy(d.Code_EAN) /\ e.Code_EAN = d.Code_EAN)

\* the incoming data has an internal code and a barcode, another stored
\* record carries that barcode, and the record read is the one with the code
C11_Witness ==
    \E r \in Requests :
        /\ HasTarget(r)
        /\ Truthy(product_data[r].default_code)
        /\ Truthy(product_data[r].barcode)
        /\ existing[r].barcode # product_data[r].barcode
        /\ \E i \in 1..Len(store) :
              /\ store[i].barcode = product_data[r].barcode
              /\ store[i].id # existing[r].id

\* the incoming data of request r has no non-empty identity field
NoIdentity(r) ==
    /\ ~Truthy(product_data[r].default_code)
    /\ ~Truthy(product_data[r].barcode)
    /\ ~Truthy(product_data[r].Code_EAN)

\* C12: when the incoming record carries no non-empty default_code,
\* barcode or EAN code, the merge fails with a validation error reported
\* to the caller and no stored record is created or modified by the merge.
C12_NoIdentityFails ==
    [][\A r \in Requests :
         (pc[r] = "enrich_find" /\ NoIdentity(r) /\ pc'[r] # pc[r]) =>
            /\ pc'[r] = "idle"
            /\ result'[r] = "error"
            /\ failure'[r] = "no_identity"
            /\ nwrites'[r] = 0
            /\ store' = store]_vars

\* a merge without identity has failed against a store that holds records
C12_Witness ==
    \E r \in Requests :
        /\ result[r] = "error"
        /\ failure[r] = "no_identity"
        /\ nwrites[r] = 0
        /\ Len(store) >= 1

\* C13: each call of enrich_existing_product writes to the store at most
\* once, and when the call fails (no identity, existing record not found, a
\* store read fails) no stored record has been changed by it.
C13_SingleWriteOrNone ==
    \A r \in Requests :
        /\ nwrites[r] <= 1
        /\ result[r] = "error" => nwrites[r] = 0

\* C16: after any sequence of create_product calls (including those that
\* fall back to a merge) no two stored records share the same non-empty
\* default_code, the same non-empty barcode or the same non-empty EAN code.
C16_IdentityUnique ==
    \A i, j \in 1..Len(store) :
        i # j =>
            \A f \in {"default_code", "barcode", "Code_EAN"} :
                Truthy(store[i][f]) => store[i][f] # store[j][f]

(***************************************************************************)
(* Concurrent create_product calls for one internal code                   *)
(***************************************************************************)
\* positions of the stored records with the given internal code
WithCode(code) == {i \in 1..Len(store) : store[i].default_code = code}

\* C14: of concurrent create_product calls for one non-empty default_code
\* that no record has yet, exactly one inserts; every other call gets the
\* uniqueness violation and runs enrich_existing_product, which reads and
\* merges into the record that was inserted; exactly one stored record
\* has the code afterwards.
C14_OneInsertOthersMerge ==
    /\ Cardinality(WithCode(CodeA1)) <= 1
    /\ ncalls >= 1 => Cardinality(WithCode(CodeA1)) = 1
    /\ \A r \in Requests :
          /\ result[r] # "error"
          /\ HasTarget(r) =>
                /\ WithCode(product_data[r].default_code) = {TargetOf(r)}
                /\ existing[r].default_code = product_data[r].default_code
                /\ Range(sources[r]) \cap Range(existing[r].sources) = {}
                /\ Head(existing[r].sources) < Head(sources[r])

\* two calls on an empty store: the first inserted the record, the second
\* has merged into it
C14_Witness ==
    /\ ncalls = 2
    /\ Len(store) = 1
    /\ \E r \in Requests :
          /\ pc[r] = "enrich_reread"
          /\ existing[r].sources = <<1>>
          /\ store[1].sources = <<1, 2>>

\* C15: when a further writer changes the target record between the
\* merge's read of it and the merge's update, the merge does not retry and
\* the collision surfaces as a fatal error to the merge's caller.
C15_CollisionFatal ==
    [][\A r \in Requests :
         (/\ pc[r] = "enrich_update"
          /\ pc'[r] # pc[r]
          /\ store[TargetOf(r)] # existing[r]) =>
            /\ pc'[r] = "idle"
            /\ result'[r] = "error"
            /\ store' = store]_vars

(***************************************************************************)
(* StorageService.get_duplicates_by_code                                   *)
(***************************************************************************)
\* stored documents in the grouping scenarios
MaxDupStore == 4
\* largest skip, limit and min_count arguments tried
MaxSkip == 1
MaxLimit == 2
MaxMinCount == 2

CodeB2 == <<"B", "2">>

\* a document with the given default_code and nothing else of interest
DupDoc(dc) ==
    [default_code |-> dc, barcode |-> Missing, Code_EAN |-> Missing,
     code_ean |-> Missing, ref_constructeur |-> Missing,
     constructeur |-> Missing, name |-> NameW]

\* documents of the grouping scenarios: two codes, a null code, an empty
\* code and no code
DupDocs == {DupDoc(CodeA1), DupDoc(CodeB2), DupDoc(None), DupDoc(<<>>), DupDoc(Missing)}

\* $match {"default_code": {"$ne": None, "$exists": True, "$ne": ""}}: the
\* dict literal keeps the last "$ne", so the filter is $exists and $ne ""
MatchStage(st) ==
    SelectSeq(st, LAMBDA d : d.default_code # Missing /\ d.default_code # <<>>)

\* $group by default_code: count and the pushed members, in input order
GroupOf(docs, code) ==
    LET members == SelectSeq(docs, LAMBDA d : d.default_code = code)
    IN  [default_code |-> code,
         count |-> Len(members),
         products |-> [i \in 1..Len(members) |-> members[i].id]]

GroupStage(docs) == {GroupOf(docs, docs[i].default_code) : i \in 1..Len(docs)}

\* variant: the count filter lets groups one short of min_count through
QualifiesOffByOne(count, min_count) == count >= min_count - 1

\* $match {"count": {"$gte": min_count}}
Qualifies(count, min_count) == count >= min_count

\* the pipeline up to the count filter
QualifyingGroups(st, min_count) ==
    {g \in GroupStage(MatchStage(st)) : Qualifies(g.count, min_count)}

\* every arrangement of a set of groups in a list
Arrangements(S) ==
    {f \in [1..Cardinality(S) -> S] :
        \A i, j \in 1..Cardinality(S) : i # j => f[i] # f[j]}

\* variant: the groups are not sorted
AnyOrders(S) == Arrangements(S)

\* $sort {"count": -1}: groups of equal count come in an order the store
\* chooses
SortedOrders(S) ==
    {f \in Arrangements(S) :
        \A i \in 1..(Cardinality(S) - 1) : f[i].count >= f[i + 1].count}

\* $skip, $limit
PageOf(order, skip, limit) ==
    IF skip >= Len(order) THEN <<>>
    ELSE FirstN(SubSeq(order, skip + 1, Len(order)), limit)

\* bulk_insert_products into a collection whose unique index on
\* default_code was not created (Database._create_indexes logs the error
\* and goes on): every document is stored
InsertUnindexed(t) ==
    /\ dup_pc \in {"idle", "counted"}
    /\ Len(store) < MaxDupStore
    /\ store' = InsertOne(store, CatalogDoc(NewId(store), t))
    /\ UNCHANGED matchVars
    /\ UNCHANGED mergeVars
    /\ UNCHANGED dupVars

\* get_duplicates_by_code up to the end of the count aggregation
GetDuplicatesCount(skip, limit, min_count) ==
    /\ dup_pc = "idle"
    /\ dup_args' = [skip |-> skip, limit |-> limit, min_count |-> min_count]
    /\ total' = Cardinality(QualifyingGroups(store, min_count))
    /\ dup_pc' = "counted"
    /\ UNCHANGED <<store, groups>>
    /\ UNCHANGED matchVars
    /\ UNCHANGED mergeVars

\* the paginated aggregation and the return
GetDuplicatesPage ==
    /\ dup_pc = "counted"
    /\ \E order \in SortedOrders(QualifyingGroups(store, dup_args.min_count)) :
          groups' = PageOf(order, dup_args.skip, dup_args.limit)
    /\ dup_pc' = "done"
    /\ UNCHANGED <<store, dup_args, total>>
    /\ UNCHANGED matchVars
    /\ UNCHANGED mergeVars

NextDup ==
    \/ \E t \in DupDocs : InsertUnindexed(t)
    \/ \E skip \in 0..MaxSkip, limit \in 1..MaxLimit, min_count \in 1..MaxMinCount :
          GetDuplicatesCount(skip, limit, min_count)
    \/ GetDuplicatesPage

SpecDup == Init /\ [][NextDup]_vars

\* number of stored records with exactly the given default_code
CountOf(code) == Cardinality({i \in 1..Len(store) : store[i].default_code = code})

\* C17: get_duplicates_by_code returns a group for a default_code value
\* only if the number of stored records with exactly that code is
\* >= min_count; every returned group's count equals that number and the
\* length of its member list; with min_count = 2, three records with code
\* A1 and one with code B2 give exactly one group (A1, count 3).
C17_GroupCounts ==
    (dup_pc = "done") =>
        /\ \A k \in 1..Len(groups) :
              /\ CountOf(groups[k].default_code) >= dup_args.min_count
              /\ groups[k].count = CountOf(groups[k].default_code)
              /\ Len(groups[k].products) = groups[k].count
        /\ (/\ dup_args.min_count = 2
            /\ dup_args.skip = 0
            /\ Len(store) = 4
            /\ CountOf(CodeA1) = 3
            /\ CountOf(CodeB2) = 1) =>
              /\ Len(groups) = 1
              /\ groups[1].default_code = CodeA1
              /\ groups[1].count = 3

\* the example: three A1 records and one B2 record, min_count = 2
C17_Witness ==
    /\ dup_pc = "done"
    /\ dup_args.min_count = 2
    /\ CountOf(CodeA1) = 3
    /\ CountOf(CodeB2) = 1
    /\ Len(groups) = 1
    /\ groups[1].count = 3

\* the default_code values whose group passes the filters, for the store
\* as it is: present, not the empty string, at least min_count records
QualifyingCodes(min_count) ==
    {code \in {store[i].default_code : i \in 1..Len(store)} :
        /\ code # Missing
        /\ code # <<>>
        /\ CountOf(code) >= min_count}

\* page is the window skip+1 .. skip+limit of some arrangement of the
\* qualifying groups by non-increasing count
IsPageOf(page, skip, limit, min_count) ==
    LET codes == QualifyingCodes(min_count)
        rest == Cardinality(codes) - skip
    IN  /\ Len(page) = (IF rest <= 0 THEN 0 ELSE IF rest < limit THEN rest ELSE limit)
        /\ \A k \in 1..Len(page) :
              /\ page[k].default_code \in codes
              /\ page[k].count = CountOf(page[k].default_code)
              /\ Cardinality({c \in codes : CountOf(c) > page[k].count}) <= skip + k - 1
              /\ Cardinality({c \in codes : CountOf(c) >= page[k].count}) >= skip + k
        /\ \A k, m \in 1..Len(page) :
              k # m => page[k].default_code # page[m].default_code
        /\ \A k \in 1..(Len(page) - 1) : page[k].count >= page[k + 1].count

ShortName == <<"a","b","c"," ","d","e">>

\* a record with the query's barcode and an unrelated name, a record with
\* a name close to QueryName, and a record named exactly ShortName
ExBarcodeDoc == [default_code |-> Missing, barcode |-> B1, Code_EAN |-> Missing,
                 code_ean |-> Missing, ref_constructeur |-> Missing,
                 constructeur |-> Missing, name |-> <<"q","r","s","t">>]
ExLongNameDoc == [default_code |-> Missing, barcode |-> Missing, Code_EAN |-> Missing,
                  code_ean |-> Missing, ref_constructeur |-> Missing,
                  constructeur |-> Missing,
                  name |-> <<"a","b","c","d"," ","e","f","g","h","i","j">>]
ExShortNameDoc == [default_code |-> Missing, barcode |-> Missing, Code_EAN |-> Missing,
                   code_ean |-> Missing, ref_constructeur |-> Missing,
                   constructeur |-> Missing, name |-> ShortName]

ExampleDocs == {ExBarcodeDoc, ExLongNameDoc, ExShortNameDoc}

\* queries with a barcode and a name and nothing else
ExampleQueries ==
    {[barcode |-> B1, Code_EAN |-> None, code_ean |-> Missing, default_code |-> None,
      refConstructeur |-> None, ref_constructeur |-> Missing,
      constructeur |-> None, name |-> n] : n \in {QueryName, ShortName}}

NextExample ==
    \/ \E t \in ExampleDocs : BulkInsert(t)
    \/ \E q \in ExampleQueries, n \in (1..MaxResultsArg) \cup {DefaultMaxResults} :
          FindMatchesCall(q, n, {})

SpecExample == Init /\ [][NextExample]_vars

\* the store holds exactly two records: position b has the query's
\* barcode, position o is otherwise unrelated and its name has similarity
\* >= 0.90 to the query name
ExampleStore(b, o) ==
    /\ Len(store) = 2
    /\ {b, o} = {1, 2}
    /\ store[b].barcode = QBarcode
    /\ store[o].barcode # QBarcode
    /\ 100 * NameSimilarity(o).num >= 90 * NameSimilarity(o).den

\* the barcode match (1.00) ranked before the name match (0.75), nothing else
TwoResults(b, o) ==
    /\ Len(matches) = 2
    /\ matches[1].product_id = store[b].id
    /\ matches[1].score = 100
    /\ matches[1].match_type = "exact_barcode"
    /\ matches[2].product_id = store[o].id
    /\ matches[2].score = 75
    /\ matches[2].match_type = "fuzzy_name_high"

\* the query carries a barcode and a name and no other trigger field
BarcodeAndNameQuery ==
    /\ Called
    /\ Truthy(QBarcode)
    /\ QName # <<>>
    /\ ~Truthy(odoo_product.default_code)
    /\ ~Truthy(PyOr(odoo_product.Code_EAN, odoo_product.code_ean))
    /\ ~Truthy(PyOr(odoo_product.refConstructeur, odoo_product.ref_constructeur))

\* C19 as stated: with room left (max_results >= 2), a store of one record
\* with the query's barcode and a second, otherwise unrelated record whose
\* name has similarity >= 0.90 to the query name yields exactly two
\* results, the barcode match (1.00) before the name match (0.75).
C19_Original ==
    (BarcodeAndNameQuery /\ max_results >= 2) =>
        \A b, o \in 1..Len(store) : ExampleStore(b, o) => TwoResults(b, o)

\* C19 amended: the same, for a second record whose name contains
\* (case-insensitively) one of the first five words longer than three
\* characters of the normalized query name; a record whose name contains
\* none of them is not returned, however similar its name.
C19_NameTopUp ==
    (BarcodeAndNameQuery /\ max_results >= 2) =>
        \A b, o \in 1..Len(store) :
            ExampleStore(b, o) =>
                IF RegexAnyI(store[o].name, SignificantWords(QName))
                THEN TwoResults(b, o)
                ELSE /\ Len(matches) = 1
                     /\ matches[1].product_id = store[b].id

\* the two records are stored and both are returned, barcode match first
C19_Witness ==
    /\ BarcodeAndNameQuery
    /\ max_results >= 2
    /\ \E b, o \in 1..Len(store) : ExampleStore(b, o) /\ TwoResults(b, o)

(***************************************************************************)
(* Which matchers of find_matches query the store                          *)
(***************************************************************************)
QEan == PyOr(odoo_product.Code_EAN, odoo_product.code_ean)
QRef == PyOr(odoo_product.refConstructeur, odoo_product.ref_constructeur)

\* returned results that are not partial_code results.  Identity scores
\* exceed fuzzy scores and fuzzy scores exceed the partial score, so the
\* returned list shows whether the list was full when a stage was reached.
NonPartialCount ==
    Cardinality({k \in 1..Len(matches) : matches[k].match_type # "partial_code"})

\* C20: the barcode, EAN, internal-code and manufacturer-ref matchers query
\* the store whenever their trigger field is present (the EAN matcher only
\* when the EAN differs from the barcode), whatever the number of
\* candidates collected; the fuzzy-name and partial-code matchers query
\* the store only when fewer than max_results candidates have been
\* collected when they are reached.
C20_MatcherGating ==
    Called =>
        /\ "barcode" \in issued <=> Truthy(QBarcode)
        /\ "ean" \in issued <=> (Truthy(QEan) /\ QEan # QBarcode)
        /\ "code" \in issued <=> Truthy(odoo_product.default_code)
        /\ "ref" \in issued <=> Truthy(QRef)
        /\ "fuzzy" \in issued => IdentityCount < max_results
        /\ "partial" \in issued => NonPartialCount < max_results

\* the barcode matcher alone filled the list; the code and manufacturer
\* matchers still queried, the fuzzy and partial matchers did not although
\* the query has a name and a code
C20_Witness ==
    /\ outcome = "returned"
    /\ store_down = {}
    /\ Cardinality({i \in 1..Len(store) : store[i].barcode = QBarcode}) >= max_results
    /\ Truthy(QBarcode)
    /\ {"barcode", "code", "ref"} \subseteq issued
    /\ QName = QueryName
    /\ "fuzzy" \notin issued
    /\ "partial" \notin issued

(***************************************************************************)
(* Scores, order and precedence of the results of find_matches             *)
(***************************************************************************)
QConstructeur == Get(odoo_product.constructeur)

\* the two manufacturer names are non-empty and equal after lowercasing,
\* trimming and collapsing whitespace
SameManufacturer(a, b) ==
    /\ Truthy(a)
    /\ Truthy(b)
    /\ CollapseWs(Strip(Lower(a))) = CollapseWs(Strip(Lower(b)))

\* C21: a manufacturer_ref result scores 0.95 exactly when the query's
\* manufacturer name and the candidate's manufacturer name (as the result
\* reports it) are both non-empty and equal after normalization, and 0.85
\* otherwise; it never exceeds 0.95.
C21_ManufacturerBoost ==
    \A k \in 1..Len(matches) :
        matches[k].match_type = "manufacturer_ref" =>
            /\ matches[k].score <= 95
            /\ matches[k].score =
                  (IF SameManufacturer(QConstructeur, matches[k].constructeur)
                   THEN 95 ELSE 85)

\* a boosted result whose manufacturer differs from the query's in case
\* and spacing, next to an unboosted result with another manufacturer
C21_Witness ==
    /\ outcome = "returned"
    /\ \E k, m \in 1..Len(matches) :
          /\ matches[k].match_type = "manufacturer_ref"
          /\ matches[k].score = 95
          /\ matches[k].constructeur # QConstructeur
          /\ matches[m].match_type = "manufacturer_ref"
          /\ matches[m].score = 85
          /\ Truthy(matches[m].constructeur)

\* priority of the matcher that produced a result
PriorityOf(r) ==
    CASE r.match_type = "exact_barcode" -> 1
      [] r.match_type = "exact_ean" -> 2
      [] r.match_type = "exact_code" -> 3
      [] r.match_type = "manufacturer_ref" -> 4
      [] r.match_type \in FuzzyTypes -> 5
      [] r.match_type = "partial_code" -> 6

\* position of a result's record in the store: the store returns records
\* in this order
StorePos(r) == CHOOSE i \in 1..Len(store) : store[i].id = r.product_id

\* similarity of a result's record name to the query name
SimOf(r) == CalculateSimilarity(QName, Get(store[StorePos(r)].name))

\* C22 as stated: among results of equal score, the order is by matcher
\* priority and, within one matcher, by the order in which the store
\* returned the records.
C22_Original ==
    \A i, j \in 1..Len(matches) :
        (i < j /\ matches[i].score = matches[j].score) =>
            \/ PriorityOf(matches[i]) < PriorityOf(matches[j])
            \/ /\ PriorityOf(matches[i]) = PriorityOf(matches[j])
               /\ StorePos(matches[i]) < StorePos(matches[j])

\* C22 amended: among results of equal score, the order is by matcher
\* priority; within one matcher by the order in which the store returned
\* the records, except for the fuzzy-name matcher, whose results come by
\* similarity descending and only then by store order.
C22_TieOrder ==
    \A i, j \in 1..Len(matches) :
        (i < j /\ matches[i].score = matches[j].score) =>
            \/ PriorityOf(matches[i]) < PriorityOf(matches[j])
            \/ /\ PriorityOf(matches[i]) = PriorityOf(matches[j])
               /\ PriorityOf(matches[i]) # 5
               /\ StorePos(matches[i]) < StorePos(matches[j])
            \/ /\ PriorityOf(matches[i]) = 5
               /\ PriorityOf(matches[j]) = 5
               /\ \/ SimGt(SimOf(matches[i]), SimOf(matches[j]))
                  \/ /\ ~SimGt(SimOf(matches[j]), SimOf(matches[i]))
                     /\ StorePos(matches[i]) < StorePos(matches[j])

\* two fuzzy results of equal score: the record the store holds second has
\* the more similar name and comes first
C22_Witness ==
    /\ outcome = "returned"
    /\ \E i, j \in 1..Len(matches) :
          /\ i < j
          /\ matches[i].score = matches[j].score
          /\ matches[i].match_type \in FuzzyTypes
          /\ matches[j].match_type \in FuzzyTypes
          /\ SimGt(SimOf(matches[i]), SimOf(matches[j]))
          /\ StorePos(matches[j]) < StorePos(matches[i])

QCode == Get(odoo_product.default_code)

\* number of stored records up to position i that carry the default_code of store[i]
CodeRank(i) == Cardinality({k \in 1..i : store[k].default_code = store[i].default_code})

HasQueryBarcode(r) == Truthy(QBarcode) /\ store[StorePos(r)].barcode = QBarcode
HasQueryCode(r) == Truthy(QCode) /\ store[StorePos(r)].default_code = QCode

\* C23 as stated: a record reported as exact_code, manufacturer_ref,
\* fuzzy_name_* or partial_code does not have the query's barcode, and a
\* record reported as fuzzy_name_* or partial_code does not have the
\* query's internal code.
C23_Original ==
    \A k \in 1..Len(matches) :
        /\ matches[k].match_type \in {"exact_code", "manufacturer_ref",
                                      "fuzzy_name_high", "fuzzy_name_medium",
                                      "partial_code"} => ~HasQueryBarcode(matches[k])
        /\ matches[k].match_type \in {"fuzzy_name_high", "fuzzy_name_medium",
                                      "partial_code"} => ~HasQueryCode(matches[k])

\* C23 amended: a record returned by a matcher's store query is skipped by
\* all later matchers.  A record reported as exact_code, manufacturer_ref,
\* fuzzy_name_* or partial_code has the query's barcode only if the
\* barcode query failed or the record is not among the first 5 stored
\* records with that barcode; a record reported as fuzzy_name_* or
\* partial_code has the query's internal code only if the code query
\* failed or the record is not among the first 5 records with that code.
C23_FirstMatcherWins ==
    \A k \in 1..Len(matches) :
        /\ (/\ matches[k].match_type \in {"exact_code", "manufacturer_ref",
                                          "fuzzy_name_high", "fuzzy_name_medium",
                                          "partial_code"}
            /\ HasQueryBarcode(matches[k])) =>
              \/ "barcode" \in store_down
              \/ BarcodeRank(StorePos(matches[k])) > 5
        /\ (/\ matches[k].match_type \in {"fuzzy_name_high", "fuzzy_name_medium",
                                          "partial_code"}
            /\ HasQueryCode(matches[k])) =>
              \/ "code" \in store_down
              \/ CodeRank(StorePos(matches[k])) > 5
        /\ \A m \in 1..Len(matches) :
              m # k => matches[m].product_id # matches[k].product_id

\* a record with the query's barcode, internal code and a similar name is
\* reported once, as exact_barcode, next to an exact_ean or
\* manufacturer_ref result for another record
C23_Witness ==
    /\ outcome = "returned"
    /\ store_down = {}
    /\ QName = QueryName
    /\ \E k, m \in 1..Len(matches) :
          /\ HasQueryBarcode(matches[k])
          /\ HasQueryCode(matches[k])
          /\ matches[k].match_type = "exact_barcode"
          /\ matches[m].match_type \in {"exact_ean", "manufacturer_ref"}
          /\ ~HasQueryBarcode(matches[m])

(***************************************************************************)
(* find_matches on a query that carries only an internal code              *)
(***************************************************************************)
\* records that differ in default_code only
PartialDocs ==
    {[default_code |-> c, barcode |-> Missing, Code_EAN |-> Missing,
      code_ean |-> Missing, ref_constructeur |-> Missing,
      constructeur |-> Missing, name |-> Missing] :
        c \in {CodeAB1, CodeAB1x, <<"x","a","b","1">>, <<"a","b">>, <<"1","-","a","b">>}}

\* queries with an internal code and nothing else: one token of length 3,
\* a token of length 3 and a short one, short tokens only, no token
PartialQueries ==
    {[NoQuery EXCEPT !.default_code = c] :
        c \in {CodeAB1, CodeAB1x, <<"a","b","-","1">>, <<"-">>}}

NextPartial ==
    \/ \E t \in PartialDocs : BulkInsert(t)
    \/ \E q \in PartialQueries, n \in (1..MaxResultsArg) \cup {DefaultMaxResults} :
          FindMatchesCall(q, n, {})
    \/ \E q \in PartialQueries : FindMatchesCall(q, DefaultMaxResults, {"code"})

SpecPartial == Init /\ [][NextPartial]_vars

IsPartial(r) == r.match_type = "partial_code"

\* C24: every partial_code result scores 0.50 and is for a stored record
\* whose default_code contains, case-insensitively, an alphanumeric token
\* of length >= 3 of the query's internal code, differs from the query
\* code and was not matched by an earlier matcher; a query code without
\* such a token yields no partial_code result.
C24_PartialCode ==
    /\ \A k \in 1..Len(matches) :
          IsPartial(matches[k]) =>
            /\ matches[k].score = 50
            /\ Truthy(QCode)
            /\ \E p \in 1..Len(AlnumParts(QCode)) :
                  /\ Len(AlnumParts(QCode)[p]) >= 3
                  /\ Contains(Lower(store[StorePos(matches[k])].default_code),
                              Lower(AlnumParts(QCode)[p]))
            /\ store[StorePos(matches[k])].default_code # QCode
            /\ \A m \in 1..Len(matches) :
                  m # k => matches[m].product_id # matches[k].product_id
    /\ (\A p \in 1..Len(AlnumParts(QCode)) : Len(AlnumParts(QCode)[p]) < 3) =>
          \A k \in 1..Len(matches) : ~IsPartial(matches[k])

\* a partial_code result next to the exact_code result, while a stored
\* code made of short tokens of the query code is not reported
C24_Witness ==
    /\ outcome = "returned"
    /\ \E k, m \in 1..Len(matches) :
          /\ IsPartial(matches[k])
          /\ matches[k].score = 50
          /\ matches[m].match_type = "exact_code"
    /\ \E i \in 1..Len(store) :
          /\ store[i].default_code = <<"a","b">>
          /\ store[i].id \notin ResultIds

(***************************************************************************)
(* create_product and enrich_existing_product called one after another     *)
(* on one internal code, with names of several confidences                 *)
(***************************************************************************)
\* the inputs of the interleaved calls and a name of a confidence between
\* the default and the highest
SerialInputs ==
    ProductInputs \cup
    {[default_code |-> CodeA1, barcode |-> Missing, Code_EAN |-> Missing,
      name |-> NameV, constructeur |-> Missing, confidence_scores |-> Conf(60)]}

NextSerial ==
    \/ \E r \in Requests, data \in SerialInputs : SequentialCreate(r, data)
    \/ \E r \in Requests, data \in SerialInputs : SequentialEnrich(r, data)
    \/ \E r \in Requests : EnrichFind(r)
    \/ \E r \in Requests : EnrichUpdate(r)
    \/ \E r \in Requests : EnrichReturn(r)

SpecSerial == Init /\ [][NextSerial]_vars

\* the merge of request r overwrites field f of the stored record
Overwrites(r, f) ==
    LET incoming == product_data[r][f]
        stored == store[TargetOf(r)]
        new_conf == IF product_data[r].confidence_scores[f] = -1 THEN 50
                    ELSE product_data[r].confidence_scores[f]
        old_conf == IF stored.scores[f] = -1 THEN 50 ELSE stored.scores[f]
    IN  /\ ~NullOrBlank(incoming)
        /\ (NullOrBlank(stored[f]) \/ new_conf > old_conf)

\* C25: after a merge, the stored confidence of every field the merge
\* overwrote equals the incoming confidence of the field (0.5 when the
\* incoming map has no entry), and the stored confidence of every other
\* field is unchanged.
C25_ConfidenceFrame ==
    [][\A r \in Requests :
         MergeStep(r) =>
            \A f \in ScoredFields :
               LET i == TargetOf(r)
               IN  IF Overwrites(r, f)
                   THEN store'[i].scores[f] =
                           (IF product_data[r].confidence_scores[f] = -1 THEN 50
                            ELSE product_data[r].confidence_scores[f])
                   ELSE store'[i].scores[f] = store[i].scores[f]]_vars

\* a merge that overwrote the name with confidence 0.9, set the confidence
\* of constructeur to the default 0.5 or left it without entry, and left
\* the entry of default_code as it was
C25_Witness ==
    \E r \in Requests :
        /\ pc[r] = "enrich_reread"
        /\ existing[r].name # product_data[r].name
        /\ existing[r].scores["name"] < 90
        /\ product_data[r].confidence_scores["name"] = 90
        /\ store[TargetOf(r)].name = product_data[r].name
        /\ store[TargetOf(r)].scores["name"] = 90
        /\ store[TargetOf(r)].scores["default_code"] = existing[r].scores["default_code"]

(***************************************************************************)
(* The identity values of the groups of get_duplicates_by_code             *)
(***************************************************************************)
\* C26: get_duplicates_by_code groups only records whose default_code is
\* present, not null and not the empty string: no returned group, for any
\* min_count >= 1, has a null or empty default_code as its identity value.
C26_NoNullGroup ==
    dup_pc = "done" =>
        \A k \in 1..Len(groups) :
            /\ groups[k].default_code # None
            /\ groups[k].default_code # <<>>
            /\ groups[k].default_code # Missing

(***************************************************************************)
(* Errors of the merge fallback of create_product                          *)
(***************************************************************************)
\* the merge fallback of the create_product call of request r fails
FallbackFails(r) == result[r] = "create_fallback" /\ result'[r] = "error"

\* C27 as stated: a failure inside the merge fallback of create_product
\* (store error on the read or the update, existing record not found)
\* reaches the caller of create_product as that same error, unchanged and
\* distinguishable by kind, and neither the insert nor the merge is
\* attempted again.
C27_Original ==
    [][\A r \in Requests :
         FallbackFails(r) =>
            /\ failure'[r] \in {"not_found", "store_error"}
            /\ pc'[r] = "idle"
            /\ store' = store]_vars

\* C27 amended: such a failure reaches the caller of create_product as a
\* new ValueError whose message embeds the text of the error of the merge;
\* the class of the error is ValueError whether the record was not found
\* or the store failed, and neither the insert nor the merge is attempted
\* again.
C27_WrappedError ==
    [][\A r \in Requests :
         FallbackFails(r) =>
            /\ failure'[r] \in {"enrichment failed: not_found",
                                 "enrichment failed: store_error"}
            /\ ErrorType(failure'[r]) = "ValueError"
            /\ pc'[r] = "idle"
            /\ store' = store]_vars

\* a create_product call whose fallback failed on a store error after the
\* update was written, the record holding the sources of the failed call
C27_Witness ==
    \E r \in Requests :
        /\ result[r] = "error"
        /\ failure[r] = "enrichment failed: store_error"
        /\ nwrites[r] = 1
        /\ pc[r] = "idle"

(***************************************************************************)
(* Interleaved merges into one record                                      *)
(***************************************************************************)
\* C28: after any interleaving of merges into the same stored record, for
\* every field the stored confidence is the one supplied with the write
\* that produced the field's current value, and a non-blank value is never
\* replaced by an incoming value of equal or lower confidence.
C28_NoLostConfidence ==
    [][\A r \in Requests :
         MergeStep(r) =>
            \A f \in ScoredFields :
               LET i == TargetOf(r)
                   new_conf == ConfidenceOf(product_data[r].confidence_scores, f)
                   in_set == f \in UpdatedFields(existing[r], product_data[r])
               IN  /\ in_set => store'[i].scores[f] = new_conf
                   /\ ~in_set => store'[i].scores[f] = store[i].scores[f]
                   /\ (/\ ~NullOrBlank(store[i][f])
                       /\ new_conf <= ConfidenceOf(store[i].scores, f)) =>
                         store'[i][f] = store[i][f]]_vars

(***************************************************************************)
(* get_duplicates_by_code on a store filled by create_product              *)
(***************************************************************************)
\* product_data of the create_product calls: two internal codes, and data
\* whose internal code is absent, null or empty
CodedInputs == IdentityInputs \cup {WithIdentity(CodeB2, Missing, Missing)}

\* get_duplicates_by_code called when no create_product call is in progress
SequentialDuplicates(skip, limit, min_count) ==
    AllIdle /\ GetDuplicatesCount(skip, limit, min_count)

NextCreated ==
    \/ \E r \in Requests, data \in CodedInputs : SequentialCreate(r, data)
    \/ \E r \in Requests : EnrichFind(r)
    \/ \E r \in Requests : EnrichUpdate(r)
    \/ \E r \in Requests : EnrichReturn(r)
    \/ \E skip \in 0..MaxSkip, limit \in 1..MaxLimit, min_count \in 1..MaxMinCount :
          SequentialDuplicates(skip, limit, min_count)
    \/ GetDuplicatesPage

SpecCreated == Init /\ [][NextCreated]_vars

\* C29: with the unique sparse index on default_code enforced, after any
\* sequence of create_product calls (creations and merge fallbacks)
\* get_duplicates_by_code with min_count >= 2 returns no group and total 0.
C29_NoCluster ==
    (dup_pc \in {"counted", "done"} /\ dup_args.min_count >= 2) =>
        /\ total = 0
        /\ dup_pc = "done" => groups = <<>>

\* the call with min_count = 2 has returned on a store that holds a record
\* with code A1, a record without code and a record a later call merged into
C29_Witness ==
    /\ dup_pc = "done"
    /\ dup_args.min_count = 2
    /\ total = 0
    /\ groups = <<>>
    /\ \E i, j, k \in 1..Len(store) :
          /\ store[i].default_code = CodeA1
          /\ store[j].default_code = Missing
          /\ Len(store[k].sources) >= 2

(***************************************************************************)
(* Running the same merge twice                                            *)
(***************************************************************************)
\* the stored record i after enrich_existing_product is run once more, in
\* sequence, with the incoming data and sources of request r
RunAgain(r, i) ==
    ApplySet(store'[i], store'[i], product_data[r], sources[r], ncalls + 1)

\* C30: running enrich_existing_product twice in sequence with the same
\* incoming fields and confidence map leaves every field value and every
\* stored confidence as after the first run; only the sources (incoming
\* entries appended again) and the update timestamp differ.
C30_Idempotent ==
    [][\A r \in Requests :
         MergeStep(r) =>
            LET i == TargetOf(r)
            IN  /\ \A f \in DocFields : RunAgain(r, i)[f] = store'[i][f]
                /\ RunAgain(r, i).scores = store'[i].scores
                /\ RunAgain(r, i).id = store'[i].id
                /\ RunAgain(r, i).sources = store'[i].sources \o sources[r]]_vars

\* a merge has written a name of confidence 0.9 into a record that
\* already held that name with that confidence and the sources of two
\* earlier calls: the name, its confidence and the other entries are as
\* before and the sources have grown by the entry of the call
C30_Witness ==
    \E r \in Requests :
        /\ pc[r] = "enrich_reread"
        /\ product_data[r].confidence_scores["name"] = 90
        /\ existing[r].name = product_data[r].name
        /\ existing[r].scores["name"] = 90
        /\ Len(existing[r].sources) >= 2
        /\ store[TargetOf(r)].name = existing[r].name
        /\ store[TargetOf(r)].scores = existing[r].scores
        /\ store[TargetOf(r)].sources = existing[r].sources \o sources[r]

====
